---- MODULE Spec2Model ----
(***************************************************************************)
(* Model of the OCR microservice in src/main.py: the page selector         *)
(* parse_pages, the engine cache get_ocr and the POST /ocr handler         *)
(* extract_text with its temporary-storage lifecycle.                      *)
(*                                                                         *)
(* Strings are sequences of one-character strings, so that split, strip    *)
(* and int are modelled by what they do.  Confidences are integers in      *)
(* hundredths; a quotient is an exact fraction <<numerator, denominator>>  *)
(* in lowest terms.                                                        *)
(***************************************************************************)
EXTENDS Integers, Sequences, FiniteSets, TLC

\* ------------------------------------------------------------------ bounds
MaxLen == 5
MaxTotalPages == 3
MaxCap == 3
NumRequests == 2
MaxPdfPages == 2
MaxLines == 2

\* ------------------------------------------------------------- characters
Digits == {"0", "1", "2", "3"}
Whitespace == {" "}
Alphabet == Digits \cup Whitespace \cup {"-", ",", "x"}

kwAll == <<"a", "l", "l">>
kwFirst == <<"f", "i", "r", "s", "t">>
kwLast == <<"l", "a", "s", "t">>

StringsUpTo(n) == UNION {[1..k -> Alphabet] : k \in 0..n}

Min(a, b) == IF a <= b THEN a ELSE b

\* ------------------------------------------------- Python string helpers
\* c in s
Contains(s, c) == \E i \in 1..Len(s) : s[i] = c

FirstIndex(s, c) == CHOOSE i \in 1..Len(s) : s[i] = c /\ \A j \in 1..(i - 1) : s[j] # c

\* s.split(c)
RECURSIVE Split(_, _)
Split(s, c) ==
    IF ~Contains(s, c) THEN <<s>>
    ELSE LET i == FirstIndex(s, c)
         IN  <<SubSeq(s, 1, i - 1)>> \o Split(SubSeq(s, i + 1, Len(s)), c)

\* s.strip()
RECURSIVE LStrip(_)
LStrip(s) == IF s # <<>> /\ s[1] \in Whitespace THEN LStrip(Tail(s)) ELSE s

RECURSIVE RStrip(_)
RStrip(s) ==
    IF s # <<>> /\ s[Len(s)] \in Whitespace THEN RStrip(SubSeq(s, 1, Len(s) - 1)) ELSE s

Strip(s) == RStrip(LStrip(s))

DigitVal(c) == CASE c = "0" -> 0 [] c = "1" -> 1 [] c = "2" -> 2 [] c = "3" -> 3

RECURSIVE DigitsVal(_)
DigitsVal(ds) ==
    IF ds = <<>> THEN 0
    ELSE 10 * DigitsVal(SubSeq(ds, 1, Len(ds) - 1)) + DigitVal(ds[Len(ds)])

\* int(s): surrounding whitespace is ignored, one optional sign, then at
\* least one digit; anything else raises ValueError.
Unsigned(s) ==
    LET t == Strip(s) IN IF t # <<>> /\ t[1] \in {"-", "+"} THEN Tail(t) ELSE t

IntOk(s) == Unsigned(s) # <<>> /\ \A i \in 1..Len(Unsigned(s)) : Unsigned(s)[i] \in Digits

IntVal(s) ==
    LET t == Strip(s)
    IN  IF t # <<>> /\ t[1] = "-" THEN 0 - DigitsVal(Unsigned(s)) ELSE DigitsVal(Unsigned(s))

\* list(range(a, b + 1))
PyRange(a, b) == IF b < a THEN <<>> ELSE [i \in 1..(b - a + 1) |-> a + i - 1]

RECURSIVE SelectSeq2(_, _, _)
SelectSeq2(s, total_pages, max_pages) ==
    IF s = <<>> THEN <<>>
    ELSE LET rest == SelectSeq2(Tail(s), total_pages, max_pages)
         IN  IF 1 <= s[1] /\ s[1] <= total_pages /\ s[1] <= max_pages
             THEN <<s[1]>> \o rest ELSE rest

\* A call either returns a value or raises.
Return(v) == [raised |-> FALSE, value |-> v]
Raise(e) == [raised |-> TRUE, value |-> e]

\* ------------------------------------------------------------ parse_pages
parse_all(total_pages, max_pages) ==
    Return(PyRange(1, Min(total_pages + 1, max_pages + 1) - 1))

\* the range branch with the end clamped to total_pages only
parse_range_uncapped(pages_param, total_pages, max_pages) ==
    LET parts == Split(pages_param, "-")
    IN  IF Len(parts) # 2 THEN Raise("ValueError")
        ELSE IF ~IntOk(parts[1]) THEN Raise("ValueError")
        ELSE IF ~IntOk(parts[2]) THEN Raise("ValueError")
        ELSE Return(PyRange(IntVal(parts[1]), Min(IntVal(parts[2]), total_pages)))

parse_range(pages_param, total_pages, max_pages) ==
    LET parts == Split(pages_param, "-")
    IN  IF Len(parts) # 2 THEN Raise("ValueError")
        ELSE IF ~IntOk(parts[1]) THEN Raise("ValueError")
        ELSE IF ~IntOk(parts[2]) THEN Raise("ValueError")
        ELSE LET start == IntVal(parts[1])
                 end == Min(Min(IntVal(parts[2]), total_pages), max_pages)
             IN  Return(PyRange(start, end))

parse_list(pages_param, total_pages, max_pages) ==
    LET parts == Split(pages_param, ",")
    IN  IF \E i \in 1..Len(parts) : ~IntOk(Strip(parts[i])) THEN Raise("ValueError")
        ELSE LET page_list == [i \in 1..Len(parts) |-> IntVal(Strip(parts[i]))]
             IN  Return(SelectSeq2(page_list, total_pages, max_pages))

parse_single(pages_param, total_pages) ==
    IF IntOk(pages_param) /\ 1 <= IntVal(pages_param) /\ IntVal(pages_param) <= total_pages
    THEN Return(<<IntVal(pages_param)>>)
    ELSE Return(<<1>>)

parse_pages(pages_param, total_pages, max_pages) ==
    IF pages_param = kwAll THEN parse_all(total_pages, max_pages)
    ELSE IF pages_param = kwFirst THEN Return(<<1>>)
    ELSE IF pages_param = kwLast THEN Return(<<total_pages>>)
    ELSE IF Contains(pages_param, "-") THEN parse_range(pages_param, total_pages, max_pages)
    ELSE IF Contains(pages_param, ",") THEN parse_list(pages_param, total_pages, max_pages)
    ELSE parse_single(pages_param, total_pages)


\* ------------------------------------------------------------ environment
Requests == 1..NumRequests

\* temp_dir = None; mkdtemp numbers the directories it hands out from 1
NoDir == 0
\* the filesystem outside every temporary directory
Outside == 0 - 1
\* ocr not yet assigned
NoInstance == <<>>
\* file_url absent (None and "" are both falsy)
NoUrl == <<>>

Languages == {"en", "ch", "xx"}
\* language codes for which PaddleOCR(lang=...) can be constructed
Supported == {"en", "ch"}

PdfMagic == <<"%", "P", "D", "F">>
UploadPdf == PdfMagic \o <<"a">>
UploadImg == <<"i", "m", "g", "a">>
RemotePdf == PdfMagic \o <<"b">>
RemoteImg == <<"i", "m", "g", "b">>

\* file.filename comes from the multipart header as sent
Upload(filename, content) == [present |-> TRUE, filename |-> filename, content |-> content]
NoFile == [present |-> FALSE, filename |-> <<>>, content |-> <<>>]
Uploads ==
    {Upload(<<"a">>, UploadPdf), Upload(<<"a">>, UploadImg),
     Upload(<<"/", "a">>, UploadImg), Upload(<<>>, UploadImg)}
Urls == {<<"u", "/", "a">>, <<"u", "/", "p">>, <<"u", "/">>}
\* response.content when the server behind the URL answers
Serves(file_url) == IF file_url = <<"u", "/", "p">> THEN RemotePdf ELSE RemoteImg

PageExprs ==
    {kwAll, kwFirst, kwLast, <<"1", "-", "2">>, <<"0", "-", "1">>,
     <<"1", "-", "2", ",", "3">>, <<"-", "2">>, <<"2", ",", "2">>,
     <<"1", ",", "2">>, <<"2">>, <<"x">>, <<"1", "-", "2", "-", "3">>,
     <<"x", "-", "x">>}

ConfValues == {80, 95}
LineSeqs == UNION {[1..k -> ConfValues] : k \in 1..MaxLines}
\* ocr.ocr(path): raises, finds no text (falsy result), or returns lines
EngineResults == {Raise("EngineError"), Return(<<>>)} \cup {Return(l) : l \in LineSeqs}

Inputs(files, urls, langs, exprs, caps, flags) ==
    [file : files, file_url : urls, language : langs, pages : exprs,
     max_pages : caps, include_confidence : flags, include_coordinates : flags]

AllInputs ==
    Inputs({NoFile} \cup Uploads, {NoUrl} \cup Urls, {"en", "xx"}, PageExprs,
           1..MaxPdfPages, BOOLEAN)

\* nothing, an uploaded image in either of two languages, or a URL
ConcInputs ==
    Inputs({NoFile}, {NoUrl, <<"u", "/">>}, {"en"}, {kwAll}, {1}, {TRUE})
    \cup Inputs({Upload(<<"a">>, UploadImg)}, {NoUrl}, {"en", "ch"}, {kwAll}, {1}, {TRUE})

VARIABLES
    pc,             \* per request: "absent" (never sent), "idle", "reading" (at
                    \* await file.read()), "done"
    req,            \* per request: the form fields
    temp_dir,       \* per request: local temp_dir
    file_bytes,     \* per request: local file_bytes
    ocr,            \* per request: local ocr (the engine instance obtained)
    resp,           \* per request: what the caller receives
    ocr_log,        \* per request: the engine calls made, <<page, result>>
    downloaded,     \* per request: <<>> or <<outcome of requests.get>>
    created,        \* per request: every path the request created
    ocr_instances,  \* the module-level cache, a dict keyed by language
    built,          \* per language: number of PaddleOCR constructions
    next_tmp,       \* number of directories mkdtemp has handed out
    fs,             \* paths that exist
    pp_in,          \* arguments of a direct parse_pages call
    pp_out          \* <<>> or <<its outcome>>

vars ==
    <<pc, req, temp_dir, file_bytes, ocr, resp, ocr_log, downloaded, created,
      ocr_instances, built, next_tmp, fs, pp_in, pp_out>>

handler_vars ==
    <<pc, req, temp_dir, file_bytes, ocr, resp, ocr_log, downloaded, created,
      ocr_instances, built, next_tmp, fs>>


\* ---------------------------------------------------------------- helpers
RECURSIVE Gcd(_, _)
Gcd(a, b) == IF b = 0 THEN a ELSE Gcd(b, a % b)

\* a / b for a >= 0, b > 0, as an exact fraction
Quotient(a, b) == <<a \div Gcd(a, b), b \div Gcd(a, b)>>
Zero == <<0, 1>>

RECURSIVE SumSeq(_)
SumSeq(s) == IF s = <<>> THEN 0 ELSE s[1] + SumSeq(Tail(s))

\* file_bytes[:4] == b'%PDF'
is_pdf(bytes) == SubSeq(bytes, 1, Min(4, Len(bytes))) = PdfMagic

\* os.path.join(temp_dir, name): an absolute name discards temp_dir.
join(dir, name) ==
    IF name # <<>> /\ name[1] = "/" THEN [dir |-> Outside, name |-> name]
    ELSE [dir |-> dir, name |-> name]

DirPath(dir) == [dir |-> dir, name |-> <<>>]

\* open(path, 'wb') fails when the path is the directory itself
Writable(path) == path.name # <<>>

\* f"page_{page_num}.jpg"
page_name(page_num) == <<"page_", ToString(page_num), ".jpg">>

\* file_url.split("/")[-1]
url_filename(file_url) == Split(file_url, "/")[Len(Split(file_url, "/"))]

\* -------------------------------------------------------------- get_ocr
\* The cache after the call, the instance returned, whether PaddleOCR(...)
\* was called, and whether it raised.
\* get_ocr without the membership test
get_ocr_always(instances, language, serial) ==
    IF language \notin Supported
    THEN [raised |-> TRUE, error |-> "AssertionError", instances |-> instances,
          instance |-> NoInstance, constructed |-> FALSE]
    ELSE [raised |-> FALSE, error |-> "",
          instances |-> [l \in DOMAIN instances \cup {language} |->
                            IF l = language THEN <<language, serial>> ELSE instances[l]],
          instance |-> <<language, serial>>, constructed |-> TRUE]

get_ocr(instances, language, serial) ==
    IF language \notin DOMAIN instances
    THEN IF language \notin Supported
         THEN [raised |-> TRUE, error |-> "AssertionError", instances |-> instances,
               instance |-> NoInstance, constructed |-> FALSE]
         ELSE [raised |-> FALSE, error |-> "",
               instances |-> [l \in DOMAIN instances \cup {language} |->
                                 IF l = language THEN <<language, serial>> ELSE instances[l]],
               instance |-> <<language, serial>>, constructed |-> TRUE]
    ELSE [raised |-> FALSE, error |-> "", instances |-> instances,
          instance |-> instances[language],
          constructed |-> FALSE]

\* ------------------------------------------------- result aggregation
\* total_confidence += confidence, once per line
add_confidence(total_confidence, lines) == total_confidence + SumSeq(lines)

\* a count kept per page instead of per line
add_count_per_page(confidence_count, lines) == confidence_count + 1

\* confidence_count += 1, once per line
add_count(confidence_count, lines) == confidence_count + Len(lines)

with_detail(q) == q.include_confidence \/ q.include_coordinates

\* line_data carries the confidence only under include_confidence
line_data(q, confidence) ==
    IF q.include_confidence THEN [text |-> "t", confidence |-> confidence]
    ELSE [text |-> "t"]

make_page_data(q, page_num, lines) ==
    [page_number |-> page_num, lines |-> [i \in 1..Len(lines) |-> line_data(q, lines[i])]]

average(total_confidence, count) ==
    IF count > 0 THEN Quotient(total_confidence, count) ELSE Zero

\* an HTTPException; detail carries str(e), here the kind of exception
Failure(status, detail) ==
    [status |-> status, detail |-> detail, pages_processed |-> 0,
     avg_confidence |-> Zero, pages |-> <<>>]

\* the success envelope; an absent "pages" key is the empty sequence
Success(q, pages_to_process, avg_confidence, all_results) ==
    [status |-> 200, detail |-> "", pages_processed |-> Len(pages_to_process),
     avg_confidence |-> avg_confidence,
     pages |-> IF with_detail(q) /\ all_results # <<>> THEN all_results ELSE <<>>]

Outcome(response, staged, log) == [resp |-> response, staged |-> staged, log |-> log]

\* one iteration of the page loop
page_step(q, td, total_pages, st, page_num, result) ==
    IF st.raised THEN st
    ELSE IF (page_num - 1) \notin (0 - total_pages)..(total_pages - 1)
    THEN [st EXCEPT !.raised = TRUE, !.error = "IndexError"]
    ELSE LET st1 == [st EXCEPT !.staged = @ \cup {join(td, page_name(page_num))},
                               !.log = Append(@, <<page_num, result>>)]
         IN  IF result.raised THEN [st1 EXCEPT !.raised = TRUE, !.error = result.value]
             ELSE IF result.value = <<>> THEN st1
             ELSE [st1 EXCEPT
                     !.total_confidence = add_confidence(@, result.value),
                     !.confidence_count = add_count(@, result.value),
                     !.all_results = IF with_detail(q)
                                     THEN Append(@, make_page_data(q, page_num, result.value))
                                     ELSE @]

pdf_loop(q, td, total_pages, pages_to_process, results) ==
    LET loop[k \in 0..Len(pages_to_process)] ==
            IF k = 0
            THEN [raised |-> FALSE, error |-> "", staged |-> {}, log |-> <<>>,
                  all_results |-> <<>>,
                  total_confidence |-> 0, confidence_count |-> 0]
            ELSE page_step(q, td, total_pages, loop[k - 1], pages_to_process[k], results[k])
    IN  loop[Len(pages_to_process)]

\* the PDF branch once the pages are selected
process_pdf(q, td, total_pages, pages_to_process, results) ==
    LET st == pdf_loop(q, td, total_pages, pages_to_process, results)
    IN  IF st.raised THEN Outcome(Failure(500, st.error), st.staged, st.log)
        ELSE Outcome(Success(q, pages_to_process,
                             average(st.total_confidence, st.confidence_count),
                             st.all_results),
                     st.staged, st.log)

\* the single-image branch
process_image(q, td, filename, result) ==
    LET path == join(td, filename)
    IN  IF ~Writable(path) THEN Outcome(Failure(500, "IsADirectoryError"), {}, <<>>)
        ELSE IF result.raised
        THEN Outcome(Failure(500, result.value), {path}, <<<<1, result>>>>)
        ELSE IF result.value = <<>>
        THEN Outcome(Success(q, <<>>, Zero, <<>>), {path}, <<<<1, result>>>>)
        ELSE Outcome(Success(q, <<1>>,
                             average(add_confidence(0, result.value), Len(result.value)),
                             IF with_detail(q)
                             THEN <<make_page_data(q, 1, result.value)>> ELSE <<>>),
                     {path}, <<<<1, result>>>>)


\* ------------------------------------------------------------ the handler
\* if file_url: ... else: ...   (the URL is looked at first)
\* the upload looked at first
use_url_if_no_file(q) == q.file_url # NoUrl /\ ~q.file.present

use_url(q) == q.file_url # NoUrl

\* if not file and not file_url
missing_input(q) == ~q.file.present /\ q.file_url = NoUrl

\* finally: if temp_dir and os.path.exists(temp_dir): shutil.rmtree(temp_dir),
\* whose failure is swallowed
cleanup(files, td, rm) ==
    IF td # NoDir /\ DirPath(td) \in files
    THEN IF rm = "ok" THEN {p \in files : p.dir # td} ELSE files
    ELSE files

RmOutcomes == {"ok", "fail"}

\* convert_from_bytes raises or returns the page images
ConversionOutcomes == {Raise("PDFPageCountError")} \cup {Return(n) : n \in 1..MaxPdfPages}

\* The request leaves the handler: locals, response and cleanup.
Leave(r, td, bytes, dl, got, out, rm) ==
    LET mine == created[r] \cup (IF td = NoDir THEN {} ELSE {DirPath(td)}) \cup out.staged
    IN  /\ pc' = [pc EXCEPT ![r] = "done"]
        /\ temp_dir' = [temp_dir EXCEPT ![r] = td]
        /\ file_bytes' = [file_bytes EXCEPT ![r] = bytes]
        /\ downloaded' = [downloaded EXCEPT ![r] = dl]
        /\ ocr' = [ocr EXCEPT ![r] = got.instance]
        /\ ocr_instances' = got.instances
        /\ built' = IF got.constructed
                    THEN [built EXCEPT ![req[r].language] = @ + 1] ELSE built
        /\ resp' = [resp EXCEPT ![r] = out.resp]
        /\ ocr_log' = [ocr_log EXCEPT ![r] = out.log]
        /\ created' = [created EXCEPT ![r] = mine]
        /\ fs' = cleanup(fs \cup mine, td, rm)
        /\ UNCHANGED <<req, pp_in, pp_out>>

NotReached == [raised |-> FALSE, error |-> "", instances |-> ocr_instances,
               instance |-> NoInstance, constructed |-> FALSE]

\* Lines 172-344: everything after the bytes are in hand, with cleanup.
Process(r, td, bytes, filename, dl) ==
    LET q == req[r]
        got == get_ocr(ocr_instances, q.language, built[q.language] + 1)
    IN  \E rm \in RmOutcomes :
          IF got.raised
          THEN Leave(r, td, bytes, dl, got, Outcome(Failure(500, got.error), {}, <<>>), rm)
          ELSE IF is_pdf(bytes)
          THEN \E conv \in ConversionOutcomes :
                 IF conv.raised
                 THEN Leave(r, td, bytes, dl, got,
                            Outcome(Failure(500, conv.value), {}, <<>>), rm)
                 ELSE LET sel == parse_pages(q.pages, conv.value, q.max_pages)
                      IN  IF sel.raised
                          THEN Leave(r, td, bytes, dl, got,
                                     Outcome(Failure(500, sel.value), {}, <<>>), rm)
                          ELSE \E results \in [1..Len(sel.value) -> EngineResults] :
                                 Leave(r, td, bytes, dl, got,
                                       process_pdf(q, td, conv.value, sel.value, results),
                                       rm)
          ELSE \E result \in EngineResults :
                 Leave(r, td, bytes, dl, got, process_image(q, td, filename, result), rm)

\* the validation placed after mkdtemp
RejectMissingInputAfterMkdtemp(r) ==
    /\ pc[r] = "idle"
    /\ missing_input(req[r])
    /\ next_tmp' = next_tmp + 1
    /\ \E rm \in RmOutcomes :
         Leave(r, next_tmp + 1, <<>>, <<>>, NotReached,
               Outcome(Failure(400, "Either 'file' or 'file_url' must be provided"), {}, <<>>),
               rm)

\* Lines 144-149: neither file nor file_url.
RejectMissingInput(r) ==
    /\ pc[r] = "idle"
    /\ missing_input(req[r])
    /\ UNCHANGED next_tmp
    /\ Leave(r, NoDir, <<>>, <<>>, NotReached,
             Outcome(Failure(400, "Either 'file' or 'file_url' must be provided"), {}, <<>>),
             "ok")

\* Lines 151-166: the download fails.
DownloadFails(r) ==
    /\ pc[r] = "idle"
    /\ ~missing_input(req[r])
    /\ use_url(req[r])
    /\ next_tmp' = next_tmp + 1
    /\ \E rm \in RmOutcomes :
         Leave(r, next_tmp + 1, <<>>, <<Raise("RequestException")>>, NotReached,
               Outcome(Failure(400, "Failed to download file"), {}, <<>>), rm)

\* Lines 151-161 and on: the download succeeds; nothing awaits on this path.
Download(r) ==
    /\ pc[r] = "idle"
    /\ ~missing_input(req[r])
    /\ use_url(req[r])
    /\ next_tmp' = next_tmp + 1
    /\ Process(r, next_tmp + 1, Serves(req[r].file_url), url_filename(req[r].file_url),
               <<Return(Serves(req[r].file_url))>>)

\* Lines 151-169: an upload, up to the suspension at await file.read().
BeginUpload(r) ==
    /\ pc[r] = "idle"
    /\ ~missing_input(req[r])
    /\ ~use_url(req[r])
    /\ next_tmp' = next_tmp + 1
    /\ pc' = [pc EXCEPT ![r] = "reading"]
    /\ temp_dir' = [temp_dir EXCEPT ![r] = next_tmp + 1]
    /\ created' = [created EXCEPT ![r] = @ \cup {DirPath(next_tmp + 1)}]
    /\ fs' = fs \cup {DirPath(next_tmp + 1)}
    /\ UNCHANGED <<req, file_bytes, ocr, resp, ocr_log, downloaded, ocr_instances, built,
                   pp_in, pp_out>>

\* Lines 169-344: file.read() returns and the handler runs to its end.
ReadUpload(r) ==
    /\ pc[r] = "reading"
    /\ UNCHANGED next_tmp
    /\ Process(r, temp_dir[r], req[r].file.content, req[r].file.filename, <<>>)

\* a direct call of parse_pages
CallParsePages ==
    /\ pp_out = <<>>
    /\ pp_out' = <<parse_pages(pp_in.pages_param, pp_in.total_pages, pp_in.max_pages)>>
    /\ UNCHANGED <<pp_in, handler_vars>>

\* ---------------------------------------------------------- specifications
NoResponse == [status |-> 0, detail |-> "", pages_processed |-> 0, avg_confidence |-> Zero, pages |-> <<>>]
DefaultInput ==
    [file |-> NoFile, file_url |-> NoUrl, language |-> "en", pages |-> kwAll,
     max_pages |-> 1, include_confidence |-> TRUE, include_coordinates |-> FALSE]
NoCall == [pages_param |-> <<>>, total_pages |-> 1, max_pages |-> 1]

InitCommon ==
    /\ temp_dir = [r \in Requests |-> NoDir]
    /\ file_bytes = [r \in Requests |-> <<>>]
    /\ ocr = [r \in Requests |-> NoInstance]
    /\ resp = [r \in Requests |-> NoResponse]
    /\ ocr_log = [r \in Requests |-> <<>>]
    /\ downloaded = [r \in Requests |-> <<>>]
    /\ created = [r \in Requests |-> {}]
    /\ ocr_instances = [l \in {} |-> NoInstance]
    /\ built = [l \in Languages |-> 0]
    /\ next_tmp = 0
    /\ fs = {}

\* one request with any input
Init ==
    /\ InitCommon
    /\ pc = [r \in Requests |-> IF r = 1 THEN "idle" ELSE "absent"]
    /\ \E q \in AllInputs : req = [r \in Requests |-> IF r = 1 THEN q ELSE DefaultInput]
    /\ pp_in = NoCall
    /\ pp_out = <<>>

\* concurrent requests
InitConc ==
    /\ InitCommon
    /\ pc = [r \in Requests |-> "idle"]
    /\ req \in [Requests -> ConcInputs]
    /\ pp_in = NoCall
    /\ pp_out = <<>>

\* parse_pages on its own
InitPages ==
    /\ InitCommon
    /\ pc = [r \in Requests |-> "absent"]
    /\ req = [r \in Requests |-> DefaultInput]
    /\ pp_in \in [pages_param : StringsUpTo(MaxLen) \cup {kwAll, kwFirst, kwLast},
                  total_pages : 1..MaxTotalPages, max_pages : 1..MaxCap]
    /\ pp_out = <<>>

Next ==
    \E r \in Requests :
        \/ RejectMissingInput(r)
        \/ DownloadFails(r)
        \/ Download(r)
        \/ BeginUpload(r)
        \/ ReadUpload(r)

NextPages == CallParsePages

Spec == Init /\ [][Next]_vars
SpecConc == InitConc /\ [][Next]_vars
SpecPages == InitPages /\ [][NextPages]_vars


\* ------------------------------------------------------------- properties
Done(r) == pc[r] = "done"
BothSupplied(q) == q.file.present /\ q.file_url # NoUrl

\* shutil.rmtree failed, which the handler swallows: the directory is still there
RemovalFailed(r) == temp_dir[r] # NoDir /\ DirPath(temp_dir[r]) \in fs

\* C1: once a request has returned, nothing it created still exists (its
\* temporary directory, its staged page files, its staged image file),
\* a removal that itself failed being set aside.
C1_NoArtifactsRemain ==
    \A r \in Requests : (Done(r) /\ ~RemovalFailed(r)) => created[r] \cap fs = {}

\* C2: at most one engine is ever constructed per language, a cached
\* instance is never replaced or removed, and every get_ocr call returns the
\* instance first cached for its language.
C2_OneEnginePerLanguage ==
    /\ [](\A l \in Languages : built[l] <= 1)
    /\ [](\A r \in Requests : ocr[r] # NoInstance => ocr[r] = <<req[r].language, 1>>)
    /\ [][\A l \in DOMAIN ocr_instances :
            l \in DOMAIN ocr_instances' /\ ocr_instances'[l] = ocr_instances[l]]_vars

\* two requests for one language, both served, by one instance built once
C2_Witness ==
    \E r1, r2 \in Requests :
        /\ r1 # r2 /\ Done(r1) /\ Done(r2)
        /\ req[r1].language = req[r2].language
        /\ file_bytes[r1] = UploadImg /\ file_bytes[r2] = UploadImg
        /\ temp_dir[r2] < temp_dir[r1]
        /\ ocr[r1] # NoInstance /\ ocr[r1] = ocr[r2]
        /\ built[req[r1].language] = 1

\* C3: a list returned by parse_pages holds pairwise distinct page numbers,
\* each in [1, min(total_pages, max_pages)].
C3_DistinctInRange ==
    (pp_out # <<>> /\ ~pp_out[1].raised) =>
        LET v == pp_out[1].value
        IN  /\ \A i \in 1..Len(v) : v[i] \in 1..Min(pp_in.total_pages, pp_in.max_pages)
            /\ \A i, j \in 1..Len(v) : i # j => v[i] # v[j]

EngineRaised(r) == \E i \in 1..Len(ocr_log[r]) : ocr_log[r][i][2].raised

\* C4: when the engine raises on a page of a PDF the request still succeeds
\* and every selected page is processed.
C4_PageFailureDoesNotAbort ==
    \A r \in Requests :
        (Done(r) /\ is_pdf(file_bytes[r]) /\ EngineRaised(r)) =>
            (resp[r].status = 200 /\ Len(ocr_log[r]) = resp[r].pages_processed)

Numeral(s) == s # <<>> /\ \A i \in 1..Len(s) : s[i] \in Digits

WellFormedRange(e) ==
    \E i \in 1..Len(e) :
        e[i] = "-" /\ Numeral(SubSeq(e, 1, i - 1)) /\ Numeral(SubSeq(e, i + 1, Len(e)))

MalformedRange(e) == Contains(e, "-") /\ ~WellFormedRange(e)

\* C5: a PDF request whose page expression contains '-' with a start or end
\* that is no integer never succeeds, and the failure of the page parser is
\* reported as HTTP 400.
C5_MalformedRangeIs400 ==
    \A r \in Requests :
        (Done(r) /\ is_pdf(file_bytes[r]) /\ MalformedRange(req[r].pages)) =>
            /\ resp[r].status # 200
            /\ resp[r].detail = "ValueError" => resp[r].status = 400

C7_ImageIsOnePage ==
    \A r \in Requests :
        (Done(r) /\ file_bytes[r] # <<>> /\ ~is_pdf(file_bytes[r])
                 /\ ocr_log[r] # <<>> /\ ~EngineRaised(r)) =>
            /\ resp[r].status = 200
            /\ resp[r].pages_processed = 1
            /\ \A i \in 1..Len(resp[r].pages) : resp[r].pages[i].page_number = 1

\* the grammar of the page selector, on well-formed expressions
RECURSIVE Horner(_, _)
Horner(s, acc) == IF s = <<>> THEN acc ELSE Horner(Tail(s), 10 * acc + DigitVal(s[1]))
NumeralValue(s) == Horner(s, 0)

Interval(lo, hi) == IF hi < lo THEN <<>> ELSE [k \in 1..(hi - lo + 1) |-> lo + k - 1]

WellFormedList(e) ==
    /\ Contains(e, ",")
    /\ \A i \in 1..Len(e) : e[i] \in Digits \cup {","}
    /\ e[1] # "," /\ e[Len(e)] # ","
    /\ \A i \in 1..(Len(e) - 1) : ~(e[i] = "," /\ e[i + 1] = ",")

RECURSIVE Runs(_, _)
Runs(e, cur) ==
    IF e = <<>> THEN <<cur>>
    ELSE IF e[1] = "," THEN <<cur>> \o Runs(Tail(e), <<>>)
    ELSE Runs(Tail(e), Append(cur, e[1]))

Listed(e) == [i \in 1..Len(Runs(e, <<>>)) |-> NumeralValue(Runs(e, <<>>)[i])]

\* C8: on every well-formed expression parse_pages returns what the six
\* rules of the grammar give, taken in their order of precedence.
C8_GrammarAgreement ==
    pp_out # <<>> =>
        LET e == pp_in.pages_param
            total == pp_in.total_pages
            cap == pp_in.max_pages
            out == pp_out[1]
        IN  /\ e = kwAll => out = Return(Interval(1, Min(total, cap)))
            /\ e = kwFirst => out = Return(<<1>>)
            /\ e = kwLast => out = Return(<<total>>)
            /\ \A i \in 1..Len(e) :
                 (e[i] = "-" /\ Numeral(SubSeq(e, 1, i - 1))
                             /\ Numeral(SubSeq(e, i + 1, Len(e)))) =>
                     out = Return(Interval(NumeralValue(SubSeq(e, 1, i - 1)),
                                           Min(NumeralValue(SubSeq(e, i + 1, Len(e))),
                                               Min(total, cap))))
            /\ WellFormedList(e) =>
                 out = Return(SelectSeq(Listed(e),
                                        LAMBDA p : 1 <= p /\ p <= total /\ p <= cap))
            /\ Numeral(e) =>
                 out = Return(IF 1 <= NumeralValue(e) /\ NumeralValue(e) <= total
                              THEN <<NumeralValue(e)>> ELSE <<1>>)

\* the range "1-3" on a three-page document capped at two pages
C8_Witness ==
    /\ pp_in = [pages_param |-> <<"1", "-", "3">>, total_pages |-> 3, max_pages |-> 2]
    /\ pp_out = <<Return(<<1, 2>>)>>

RECURSIVE AllLines(_)
AllLines(log) ==
    IF log = <<>> THEN <<>>
    ELSE (IF log[1][2].raised THEN <<>> ELSE log[1][2].value) \o AllLines(Tail(log))

\* C9: the average confidence of a successful request is the sum of the
\* confidences of all recognized lines over their number, and 0 without
\* lines, whatever include_confidence and include_coordinates are.
C9_AverageConfidence ==
    \A r \in Requests :
        (Done(r) /\ resp[r].status = 200) =>
            LET lines == AllLines(ocr_log[r])
                avg == resp[r].avg_confidence
            IN  /\ lines = <<>> => avg = <<0, 1>>
                /\ lines # <<>> =>
                       (avg[2] > 0 /\ avg[1] * Len(lines) = avg[2] * SumSeq(lines))

\* a two-page PDF, two lines then one, answered without per-line detail
C9_Witness ==
    \E r \in Requests :
        /\ Done(r) /\ resp[r].status = 200 /\ is_pdf(file_bytes[r])
        /\ ~req[r].include_confidence /\ ~req[r].include_coordinates
        /\ Len(ocr_log[r]) = 2
        /\ ocr_log[r][1][2] = Return(<<80, 95>>)
        /\ ocr_log[r][2][2] = Return(<<80>>)
        /\ resp[r].avg_confidence = <<85, 1>>

\* C10: a request rejected with 400 leaves the engine cache as it was; one
\* rejected for missing input also creates no temporary directory and
\* leaves the filesystem as it was; no request holds an engine before it
\* holds its input bytes.
C10_RejectionLeavesStateAlone ==
    /\ [](\A r \in Requests : ocr[r] # NoInstance => file_bytes[r] # <<>>)
    /\ [][\A r \in Requests :
            (pc[r] = "idle" /\ pc'[r] = "done" /\ resp'[r].status = 400) =>
                /\ ocr_instances' = ocr_instances
                /\ built' = built
                /\ missing_input(req[r]) =>
                       (next_tmp' = next_tmp /\ fs' = fs /\ created'[r] = {})]_vars

\* a request without input rejected beside one that has filled the cache
C10_Witness ==
    \E r1, r2 \in Requests :
        /\ Done(r1) /\ missing_input(req[r1]) /\ resp[r1].status = 400
        /\ temp_dir[r1] = NoDir
        /\ Done(r2) /\ ocr[r2] # NoInstance
        /\ DOMAIN ocr_instances # {}

====
